---- MODULE Spec2Model ----
(***************************************************************************)
(* Credential & session lifecycle of ts-authn-authz: AuthService (login,   *)
(* logout, refresh), TokenService (access / refresh token minting) and     *)
(* PasswordService (requestReset, resetPassword) over the Prisma store.    *)
(* Every `await prisma.*` call of a handler is one atomic step; the code   *)
(* opens no transaction, so the steps of concurrent requests interleave.   *)
(***************************************************************************)
EXTENDS Integers, Sequences, FiniteSets, TLC

\* ------------------------------------------------------------------ bounds
MaxOps == 4          \* requests started (and store faults) in one behaviour
MaxTicks == 1        \* clock advances in one behaviour
MaxFaultOps == 3     \* requests started and store faults in one behaviour of FaultSpec

\* --------------------------------------------------------------- constants
\* Lifetimes, each taken as one unit of the clock.
ACCESS_TOKEN_TTL == 1
REFRESH_TOKEN_TTL_DAYS == 1
RESET_TOKEN_TTL == 1
\* The clock is observed at instants more than the longest lifetime apart.
ClockStep == REFRESH_TOKEN_TTL_DAYS + 1

NullTime == -1      \* a NULL timestamp column (revokedAt, usedAt, deletedAt)
NullId == "null"    \* a NULL foreign key / absent value

Requests == {"r1", "r2"}           \* request handlers that may be in flight together
\* The id of the n-th User row.
UserId(n) == "u" \o ToString(n)
\* One seeded user, and one more for every request that may register.
ExternalIds == {UserId(n) : n \in 1..(MaxOps + 1)}
InternalIds == {"i1"}
PrincipalIds == ExternalIds \cup InternalIds
Emails == {"a@x.com", "s@x.com"}
Passwords == {"password123", "newpass456"}
GarbageToken == 0                  \* a raw value no generator ever returned

\* The AuditAction enum of the store.
AuditAction ==
    {"LOGIN", "LOGOUT", "CREATE_ORG", "UPDATE_ORG", "INVITE_MEMBER",
     "REMOVE_MEMBER", "GENERATE_API_KEY", "REVOKE_API_KEY"}

VARIABLES
    users,                \* User table: id -> row
    internalUsers,        \* InternalUser table: id -> row
    sessions,             \* Session table, in insertion (createdAt) order; id = index
    refreshTokens,        \* RefreshToken table; id = index
    passwordResetTokens,  \* PasswordResetToken table; id = index
    auditLog,             \* AuditLog table, append order
    req,                  \* request handler -> its position and locals
    now,                  \* the clock (new Date(), Date.now())
    issued,               \* {accessToken, refreshToken} pairs returned to clients
    mailbox,              \* raw reset tokens delivered by email
    verifyMailbox,        \* verification tokens delivered by email
    resp,                 \* the last response a handler sent
    pre,                  \* the store when the last request started, if it started alone
                          \* and the clock has not advanced since
    resetDone,            \* the raw reset tokens of the resetPassword calls that succeeded
    logoutDone,           \* the access tokens of the logout calls that returned
    ops                   \* requests started so far

vars == <<users, internalUsers, sessions, refreshTokens, passwordResetTokens,
          auditLog, req, now, issued, mailbox, verifyMailbox, resp, pre, resetDone,
          logoutDone, ops>>

store == <<users, internalUsers, sessions, refreshTokens, passwordResetTokens,
           auditLog>>

\* What `pre` remembers: the store and the mail delivered so far.
snapshot == <<users, internalUsers, sessions, refreshTokens, passwordResetTokens,
              auditLog, mailbox, verifyMailbox>>

\* ----------------------------------------------------------------- helpers
\* bcrypt hash of a password (the salt is abstracted: compare() sees through it).
hashPassword(password) == <<"bcrypt", password>>

verifyPassword(password, hash) == hash = hashPassword(password)

\* A NULL passwordHash column (a principal with no password-based login).
NullHash == <<"null", "null">>

\* bcryptjs compare rejects ("Illegal arguments") when the hash is not a string.
CompareRejects(hash) == hash = NullHash

\* crypto.createHash("sha256").update(token).digest("hex")
Sha256(token) == <<"sha256", token>>

\* prisma.refreshToken.findUnique({ where: { tokenHash } }): row id or 0.
FindRefreshToken(tokenHash) ==
    IF \E i \in DOMAIN refreshTokens : refreshTokens[i].tokenHash = tokenHash
    THEN CHOOSE i \in DOMAIN refreshTokens : refreshTokens[i].tokenHash = tokenHash
    ELSE 0

\* prisma.internalUser.findUnique({ where: { email } }): id or NullId.
FindInternalByEmail(email) ==
    IF \E i \in InternalIds : internalUsers[i].email = email
    THEN CHOOSE i \in InternalIds : internalUsers[i].email = email
    ELSE NullId

\* The rows of a User table that match { email, deletedAt: null }.
LiveUsers(table, email) ==
    {u \in DOMAIN table : table[u].email = email /\ table[u].deletedAt = NullTime}

\* prisma.user.findFirst({ where: { email, deletedAt: null } }): the ids it may
\* return (no orderBy: any matching row), or NullId when no row matches.
FindExternalByEmail(email) ==
    IF LiveUsers(users, email) = {} THEN {NullId} ELSE LiveUsers(users, email)

\* TokenService.generateAccessToken: the payload with its expiry, signed with the
\* service's private key.
generateAccessToken(sub, type, action) ==
    [sub |-> sub, type |-> type, action |-> action, exp |-> now + ACCESS_TOKEN_TTL,
     sig |-> "privateKey"]

\* verifyAccessToken with a look at the store: the subject must also own a session
\* that is not revoked.
verifyAccessTokenWithSession(token) ==
    /\ token.sig = "privateKey" /\ token.exp > now
    /\ \E s \in DOMAIN sessions :
          /\ sessions[s].revokedAt = NullTime
          /\ token.sub \in {"user:" \o sessions[s].userId,
                            "internal:" \o sessions[s].internalUserId}

\* TokenService.verifyAccessToken: jwtVerify against the public key, which checks
\* the signature and the expiry.
verifyAccessToken(token) == token.sig = "privateKey" /\ token.exp > now

\* A well-formed, unexpired access token signed with a key that is not the service's.
BadSignatureToken ==
    [sub |-> "user:" \o UserId(1), type |-> "external", action |-> "none",
     exp |-> (MaxTicks + 1) * ClockStep, sig |-> "otherKey"]

\* The RefreshToken row TokenService.generateRefreshToken inserts.
RefreshTokenRow(id, sessionId, userType, raw) ==
    [sessionId |-> sessionId, tokenHash |-> Sha256(raw),
     expiresAt |-> now + REFRESH_TOKEN_TTL_DAYS,
     userId |-> IF userType = "external" THEN id ELSE NullId,
     internalUserId |-> IF userType = "external" THEN NullId ELSE id,
     revokedAt |-> NullTime]

\* prisma.auditLog.create: the store rejects an action outside its enum.
AuditAccepts(action) == action \in AuditAction

AuditRow(action, userId, internalUserId) ==
    [action |-> action, userId |-> userId, internalUserId |-> internalUserId]

Idle == [op |-> "idle"]

InFlight(r) == req[r].op # "idle"

Quiescent == \A r \in Requests : ~InFlight(r)

\* A handler can take a new request when it is not serving one; of two free
\* handlers the first takes it (the handlers are interchangeable).
CanStart(r) ==
    /\ ~InFlight(r) /\ (r = "r2" => InFlight("r1"))
    /\ ops < MaxOps /\ ops' = ops + 1

\* `pre` when the last request to start did not start alone.
NoStore == <<>>

\* The response of an operation that carries no token.
Done(op, result) == [op |-> op, result |-> result]

IsResponse(out) == "result" \in DOMAIN out

\* A handler step ends in `out`: a response (the handler is free again) or the
\* handler's next position.
Proceed(r, out) ==
    /\ req' = [req EXCEPT ![r] = IF IsResponse(out) THEN Idle ELSE out]
    /\ resp' = IF IsResponse(out) THEN out ELSE resp
    /\ pre' = IF req[r].op = "idle" THEN (IF Quiescent THEN snapshot ELSE NoStore)
              ELSE pre

\* -------------------------------------------------------------------- Init
\* The store with the seeded principals, the external one with a given hash.
SeededWith(hash) ==
    /\ users = [u \in {UserId(1)} |->
                 [email |-> "a@x.com", passwordHash |-> hash,
                  isActive |-> TRUE, deletedAt |-> NullTime]]
    /\ internalUsers = [i \in InternalIds |->
                 [email |-> "s@x.com", passwordHash |-> hashPassword("password123")]]
    /\ sessions = <<>>
    /\ refreshTokens = <<>>
    /\ passwordResetTokens = <<>>
    /\ auditLog = <<>>
    /\ req = [r \in Requests |-> Idle]
    /\ now = 0
    /\ issued = {}
    /\ mailbox = {}
    /\ verifyMailbox = {}
    /\ resp = [op |-> "none", result |-> "none"]
    /\ pre = <<>>
    /\ resetDone = <<>>
    /\ logoutDone = <<>>
    /\ ops = 0

Init == SeededWith(hashPassword("password123"))

\* The seeded external principal has no password (its passwordHash is NULL).
NullHashInit == SeededWith(NullHash)

\* Something stored or handed out has an expiry that has not passed.
Unexpired ==
    \/ \E i \in DOMAIN refreshTokens : ~(refreshTokens[i].expiresAt < now)
    \/ \E i \in DOMAIN passwordResetTokens : ~(passwordResetTokens[i].expiresAt < now)
    \/ \E p \in issued : verifyAccessToken(p.accessToken)
    \/ \E t \in verifyMailbox : verifyAccessToken(t)

\* Time passes between requests: longer than a token lives. The clock is only
\* read against expiries, so it is advanced only while one is still ahead.
Tick ==
    /\ Quiescent
    /\ Unexpired
    /\ now < MaxTicks * ClockStep
    /\ now' = now + ClockStep
    /\ pre' = NoStore
    /\ UNCHANGED <<store, req, issued, mailbox, verifyMailbox, resp, resetDone,
                   logoutDone, ops>>

\* ------------------------------------------------------------------- login
\* The error login throws for the credentials presented.
LoginFailed(result, email, password) ==
    [op |-> "login", result |-> result, email |-> email, password |-> password]

\* login that goes on to the external lookup when the password does not verify
\* against the internal user found.
LoginStartFallsThrough(r) ==
    /\ CanStart(r)
    /\ \E email \in Emails, password \in Passwords :
         LET internal == FindInternalByEmail(email) IN
         Proceed(r,
            IF internal = NullId
               \/ ~verifyPassword(password, internalUsers[internal].passwordHash)
            THEN [op |-> "login", pc |-> "findExternal", email |-> email,
                  password |-> password]
            ELSE [op |-> "login", pc |-> "createSession", userType |-> "internal",
                  accountId |-> internal, email |-> email, password |-> password])
    /\ UNCHANGED <<store, now, issued, mailbox, verifyMailbox, resetDone, logoutDone>>

\* AuthService.login: entry and the internal-user lookup (with the password check
\* when an internal user is found).
LoginStart(r) ==
    /\ CanStart(r)
    /\ \E email \in Emails, password \in Passwords :
         LET internal == FindInternalByEmail(email) IN
         Proceed(r,
            IF internal = NullId
            THEN [op |-> "login", pc |-> "findExternal", email |-> email,
                  password |-> password]
            ELSE IF CompareRejects(internalUsers[internal].passwordHash)
            THEN LoginFailed("IllegalArguments", email, password)
            ELSE IF ~verifyPassword(password, internalUsers[internal].passwordHash)
            THEN LoginFailed("InvalidCredentials", email, password)
            ELSE [op |-> "login", pc |-> "createSession", userType |-> "internal",
                  accountId |-> internal, email |-> email, password |-> password])
    /\ UNCHANGED <<store, now, issued, mailbox, verifyMailbox, resetDone, logoutDone>>

\* The external-user lookup with the activation check made before the password
\* check.
LoginFindExternalActiveFirst(r) ==
    /\ req[r].op = "login" /\ req[r].pc = "findExternal"
    /\ \E external \in FindExternalByEmail(req[r].email) :
       Proceed(r,
            IF external = NullId
            THEN LoginFailed("InvalidCredentials", req[r].email, req[r].password)
            ELSE IF ~users[external].isActive
            THEN LoginFailed("PrincipalInactive", req[r].email, req[r].password)
            ELSE IF ~verifyPassword(req[r].password, users[external].passwordHash)
            THEN LoginFailed("InvalidCredentials", req[r].email, req[r].password)
            ELSE [op |-> "login", pc |-> "createSession", userType |-> "external",
                  accountId |-> external, email |-> req[r].email,
                  password |-> req[r].password])
    /\ UNCHANGED <<store, now, issued, mailbox, verifyMailbox, resetDone, logoutDone, ops>>

\* The external-user lookup and password check with no activation check.
LoginFindExternalNoActivation(r) ==
    /\ req[r].op = "login" /\ req[r].pc = "findExternal"
    /\ \E external \in FindExternalByEmail(req[r].email) :
       Proceed(r,
            IF external = NullId
            THEN LoginFailed("InvalidCredentials", req[r].email, req[r].password)
            ELSE IF ~verifyPassword(req[r].password, users[external].passwordHash)
            THEN LoginFailed("InvalidCredentials", req[r].email, req[r].password)
            ELSE [op |-> "login", pc |-> "createSession", userType |-> "external",
                  accountId |-> external, email |-> req[r].email,
                  password |-> req[r].password])
    /\ UNCHANGED <<store, now, issued, mailbox, verifyMailbox, resetDone, logoutDone, ops>>

\* The external-user lookup, password check and activation check.
LoginFindExternal(r) ==
    /\ req[r].op = "login" /\ req[r].pc = "findExternal"
    /\ \E external \in FindExternalByEmail(req[r].email) :
       Proceed(r,
            IF external = NullId
            THEN LoginFailed("InvalidCredentials", req[r].email, req[r].password)
            ELSE IF CompareRejects(users[external].passwordHash)
            THEN LoginFailed("IllegalArguments", req[r].email, req[r].password)
            ELSE IF ~verifyPassword(req[r].password, users[external].passwordHash)
            THEN LoginFailed("InvalidCredentials", req[r].email, req[r].password)
            ELSE IF ~users[external].isActive
            THEN LoginFailed("PrincipalInactive", req[r].email, req[r].password)
            ELSE [op |-> "login", pc |-> "createSession", userType |-> "external",
                  accountId |-> external, email |-> req[r].email,
                  password |-> req[r].password])
    /\ UNCHANGED <<store, now, issued, mailbox, verifyMailbox, resetDone, logoutDone, ops>>

\* A Session row with the owner written to the column of the other principal kind.
SessionRowOtherColumn(userType, accountId) ==
    [userId |-> IF userType = "external" THEN NullId ELSE accountId,
     internalUserId |-> IF userType = "external" THEN accountId ELSE NullId,
     revokedAt |-> NullTime]

\* The Session row login creates for the resolved principal kind.
SessionRow(userType, accountId) ==
    [userId |-> IF userType = "external" THEN accountId ELSE NullId,
     internalUserId |-> IF userType = "external" THEN NullId ELSE accountId,
     revokedAt |-> NullTime]

\* prisma.session.create.
LoginCreateSession(r) ==
    /\ req[r].op = "login" /\ req[r].pc = "createSession"
    /\ sessions' = Append(sessions, SessionRow(req[r].userType, req[r].accountId))
    /\ req' = [req EXCEPT ![r] =
          [req[r] EXCEPT !.pc = "createRefreshToken"] @@ [sessionId |-> Len(sessions) + 1]]
    /\ UNCHANGED <<users, internalUsers, refreshTokens, passwordResetTokens, auditLog,
                   now, issued, mailbox, verifyMailbox, resp, pre, resetDone,
                   logoutDone, ops>>

\* The subject login writes into the access token.
LoginSub(userType, accountId) ==
    (IF userType = "internal" THEN "internal:" ELSE "user:") \o accountId

\* generateAccessToken, then generateRefreshToken's insert.
LoginCreateRefreshToken(r) ==
    /\ req[r].op = "login" /\ req[r].pc = "createRefreshToken"
    /\ LET raw == Len(refreshTokens) + 1 IN
       /\ refreshTokens' = Append(refreshTokens,
              RefreshTokenRow(req[r].accountId, req[r].sessionId, req[r].userType, raw))
       /\ req' = [req EXCEPT ![r] =
              [req[r] EXCEPT !.pc = "audit"]
                @@ [accessToken |-> generateAccessToken(
                                       LoginSub(req[r].userType, req[r].accountId),
                                       req[r].userType, "none"),
                    refreshToken |-> raw]]
    /\ UNCHANGED <<users, internalUsers, sessions, passwordResetTokens, auditLog, now,
                   issued, mailbox, verifyMailbox, resp, pre, resetDone, logoutDone,
                   ops>>

\* What a login handler responds with.
LoginDone(userType, id, email, password, accessToken, refreshToken) ==
    [op |-> "login", result |-> "ok", userType |-> userType, id |-> id,
     email |-> email, password |-> password,
     accessToken |-> accessToken, refreshToken |-> refreshToken]

\* The LOGIN audit record and the response.
LoginAudit(r) ==
    /\ req[r].op = "login" /\ req[r].pc = "audit"
    /\ IF AuditAccepts("LOGIN")
       THEN /\ auditLog' = Append(auditLog,
                  AuditRow("LOGIN",
                           IF req[r].userType = "external" THEN req[r].accountId ELSE NullId,
                           IF req[r].userType = "internal" THEN req[r].accountId ELSE NullId))
            /\ Proceed(r, LoginDone(req[r].userType, req[r].accountId,
                                    req[r].email, req[r].password,
                                    req[r].accessToken, req[r].refreshToken))
            /\ issued' = issued \cup
                  {[accessToken |-> req[r].accessToken, refreshToken |-> req[r].refreshToken]}
       ELSE /\ Proceed(r, LoginFailed("StoreError", req[r].email, req[r].password))
            /\ UNCHANGED <<auditLog, issued>>
    /\ UNCHANGED <<users, internalUsers, sessions, refreshTokens, passwordResetTokens,
                   now, mailbox, verifyMailbox, resetDone, logoutDone, ops>>

\* ----------------------------------------------------------------- refresh
\* The checks AuthService.refresh makes on the row found for a presented value.
RefreshCheck(raw) ==
    LET id == FindRefreshToken(Sha256(raw)) IN
    IF id = 0 \/ refreshTokens[id].revokedAt # NullTime THEN "TokenInvalid"
    ELSE IF refreshTokens[id].expiresAt < now THEN "TokenExpired"
    ELSE "pass"

\* What a refresh handler responds with.
RefreshDone(result, presented, minted) ==
    [op |-> "refresh", result |-> result, refreshToken |-> presented,
     newRefreshToken |-> minted]

\* The subject refresh writes into the access token.
RefreshSub(userType, userId) == (userType \o ":") \o userId

\* AuthService.refresh: hash, findUnique and the validity checks.
RefreshStart(r) ==
    /\ CanStart(r)
    /\ \E raw \in {p.refreshToken : p \in issued} \cup {GarbageToken} :
         LET id == FindRefreshToken(Sha256(raw)) IN
         Proceed(r,
            IF RefreshCheck(raw) # "pass"
            THEN RefreshDone(RefreshCheck(raw), raw, 0)
            ELSE [op |-> "refresh", pc |-> "createRefreshToken", refreshToken |-> raw,
                  storedToken |-> id,
                  sessionId |-> refreshTokens[id].sessionId,
                  userType |-> IF refreshTokens[id].userId # NullId
                               THEN "external" ELSE "internal",
                  userId |-> IF refreshTokens[id].userId # NullId
                             THEN refreshTokens[id].userId
                             ELSE refreshTokens[id].internalUserId])
    /\ UNCHANGED <<store, now, issued, mailbox, verifyMailbox, resetDone, logoutDone>>

\* generateRefreshToken's insert bound to the newest session instead of the session
\* of the presented token.
RefreshCreateRefreshTokenNewestSession(r) ==
    /\ req[r].op = "refresh" /\ req[r].pc = "createRefreshToken"
    /\ LET raw == Len(refreshTokens) + 1 IN
       /\ refreshTokens' = Append(refreshTokens,
              RefreshTokenRow(req[r].userId, Len(sessions), req[r].userType, raw))
       /\ req' = [req EXCEPT ![r] =
              [req[r] EXCEPT !.pc = "revoke"]
                @@ [accessToken |-> generateAccessToken(
                                       RefreshSub(req[r].userType, req[r].userId),
                                       req[r].userType, "none"),
                    newRefreshToken |-> raw]]
    /\ UNCHANGED <<users, internalUsers, sessions, passwordResetTokens, auditLog, now,
                   issued, mailbox, verifyMailbox, resp, pre, resetDone, logoutDone,
                   ops>>

\* generateAccessToken, then generateRefreshToken's insert for the same session.
RefreshCreateRefreshToken(r) ==
    /\ req[r].op = "refresh" /\ req[r].pc = "createRefreshToken"
    /\ LET raw == Len(refreshTokens) + 1 IN
       /\ refreshTokens' = Append(refreshTokens,
              RefreshTokenRow(req[r].userId, req[r].sessionId, req[r].userType, raw))
       /\ req' = [req EXCEPT ![r] =
              [req[r] EXCEPT !.pc = "revoke"]
                @@ [accessToken |-> generateAccessToken(
                                       RefreshSub(req[r].userType, req[r].userId),
                                       req[r].userType, "none"),
                    newRefreshToken |-> raw]]
    /\ UNCHANGED <<users, internalUsers, sessions, passwordResetTokens, auditLog, now,
                   issued, mailbox, verifyMailbox, resp, pre, resetDone, logoutDone,
                   ops>>

\* prisma.refreshToken.update({ where: { id }, data: { revokedAt } }).
RefreshRevoke(r) ==
    /\ req[r].op = "refresh" /\ req[r].pc = "revoke"
    /\ refreshTokens' = [refreshTokens EXCEPT ![req[r].storedToken].revokedAt = now]
    /\ req' = [req EXCEPT ![r].pc = "audit"]
    /\ UNCHANGED <<users, internalUsers, sessions, passwordResetTokens, auditLog, now,
                   issued, mailbox, verifyMailbox, resp, pre, resetDone, logoutDone,
                   ops>>

\* The TOKEN_REFRESH audit record and the response.
RefreshAudit(r) ==
    /\ req[r].op = "refresh" /\ req[r].pc = "audit"
    /\ IF AuditAccepts("TOKEN_REFRESH")
       THEN /\ auditLog' = Append(auditLog,
                  AuditRow("TOKEN_REFRESH",
                           IF req[r].userType = "external" THEN req[r].userId ELSE NullId,
                           IF req[r].userType = "internal" THEN req[r].userId ELSE NullId))
            /\ Proceed(r, RefreshDone("ok", req[r].refreshToken, req[r].newRefreshToken))
            /\ issued' = issued \cup
                  {[accessToken |-> req[r].accessToken,
                    refreshToken |-> req[r].newRefreshToken]}
       ELSE /\ Proceed(r, RefreshDone("StoreError", req[r].refreshToken,
                                      req[r].newRefreshToken))
            /\ UNCHANGED <<auditLog, issued>>
    /\ UNCHANGED <<users, internalUsers, sessions, refreshTokens, passwordResetTokens,
                   now, mailbox, verifyMailbox, resetDone, logoutDone, ops>>

\* ------------------------------------------------------------------ logout
\* sub.includes("internal:") ? sub.replace("internal:", "") : sub.replace("user:", "")
LogoutId(sub) ==
    IF \E i \in PrincipalIds : sub = "internal:" \o i
    THEN CHOOSE i \in PrincipalIds : sub = "internal:" \o i
    ELSE IF \E i \in PrincipalIds : sub = "user:" \o i
    THEN CHOOSE i \in PrincipalIds : sub = "user:" \o i
    ELSE sub

\* A where clause that leaves the owner out: any session that is not revoked.
LogoutMatchesAnyOwner(s, id, type) ==
    sessions[s].revokedAt = NullTime

\* The where clause of logout's session.findFirst.
LogoutMatches(s, id, type) ==
    /\ sessions[s].revokedAt = NullTime
    /\ IF type = "external" THEN sessions[s].userId = id
       ELSE sessions[s].internalUserId = id

\* session.findFirst ordered by createdAt ascending: the oldest match, or 0.
LogoutFindSessionOldest(id, type) ==
    LET found == {s \in DOMAIN sessions : LogoutMatches(s, id, type)} IN
    IF found = {} THEN 0 ELSE CHOOSE s \in found : \A t \in found : s <= t

\* session.findFirst({ where, orderBy: { createdAt: "desc" } }): id or 0.
LogoutFindSession(id, type) ==
    LET found == {s \in DOMAIN sessions : LogoutMatches(s, id, type)} IN
    IF found = {} THEN 0 ELSE CHOOSE s \in found : \A t \in found : t <= s

\* What a logout handler responds with; `paired` is the refresh token the client
\* received together with the access token it presented.
LogoutDone(result, accessToken, paired, sessionId) ==
    [op |-> "logout", result |-> result, accessToken |-> accessToken,
     paired |-> paired, sessionId |-> sessionId]

\* AuthService.logout: verify the access token, decode it, find the session.
LogoutStart(r) ==
    /\ CanStart(r)
    /\ \E p \in issued \cup {[accessToken |-> BadSignatureToken,
                             refreshToken |-> GarbageToken]} :
         LET id == LogoutId(p.accessToken.sub)
             type == p.accessToken.type
             session == LogoutFindSession(id, type)
         IN /\ Proceed(r,
                 IF ~verifyAccessToken(p.accessToken)
                 THEN LogoutDone("TokenInvalid", p.accessToken, p.refreshToken, 0)
                 ELSE IF session = 0
                 THEN LogoutDone("NoActiveSession", p.accessToken, p.refreshToken, 0)
                 ELSE [op |-> "logout", pc |-> "revokeSession",
                       accessToken |-> p.accessToken, paired |-> p.refreshToken,
                       id |-> id, type |-> type, sessionId |-> session])
            /\ logoutDone' = IF verifyAccessToken(p.accessToken) /\ session = 0
                             THEN Append(logoutDone, p.accessToken) ELSE logoutDone
    /\ UNCHANGED <<store, now, issued, mailbox, verifyMailbox, resetDone>>

\* prisma.session.update({ where: { id }, data: { revokedAt } }).
LogoutRevokeSession(r) ==
    /\ req[r].op = "logout" /\ req[r].pc = "revokeSession"
    /\ sessions' = [sessions EXCEPT ![req[r].sessionId].revokedAt = now]
    /\ req' = [req EXCEPT ![r].pc = "revokeTokens"]
    /\ UNCHANGED <<users, internalUsers, refreshTokens, passwordResetTokens, auditLog,
                   now, issued, mailbox, verifyMailbox, resp, pre, resetDone,
                   logoutDone, ops>>

\* prisma.refreshToken.updateMany({ where: { sessionId, revokedAt: null }, ... }).
LogoutRevokeTokens(r) ==
    /\ req[r].op = "logout" /\ req[r].pc = "revokeTokens"
    /\ refreshTokens' = [i \in DOMAIN refreshTokens |->
          IF refreshTokens[i].sessionId = req[r].sessionId
             /\ refreshTokens[i].revokedAt = NullTime
          THEN [refreshTokens[i] EXCEPT !.revokedAt = now]
          ELSE refreshTokens[i]]
    /\ req' = [req EXCEPT ![r].pc = "audit"]
    /\ UNCHANGED <<users, internalUsers, sessions, passwordResetTokens, auditLog, now,
                   issued, mailbox, verifyMailbox, resp, pre, resetDone, logoutDone,
                   ops>>

\* The LOGOUT audit record written over the newest record instead of appended.
LogoutAuditOverwrites(r) ==
    /\ req[r].op = "logout" /\ req[r].pc = "audit"
    /\ auditLog' = IF auditLog = <<>> THEN auditLog
                   ELSE [auditLog EXCEPT ![Len(auditLog)] =
                           AuditRow("LOGOUT",
                               IF req[r].type = "external" THEN req[r].id ELSE NullId,
                               IF req[r].type = "internal" THEN req[r].id ELSE NullId)]
    /\ Proceed(r, LogoutDone("ok", req[r].accessToken, req[r].paired, req[r].sessionId))
    /\ logoutDone' = Append(logoutDone, req[r].accessToken)
    /\ UNCHANGED <<users, internalUsers, sessions, refreshTokens, passwordResetTokens,
                   now, issued, mailbox, verifyMailbox, resetDone, ops>>

\* The LOGOUT audit record and the response.
LogoutAudit(r) ==
    /\ req[r].op = "logout" /\ req[r].pc = "audit"
    /\ IF AuditAccepts("LOGOUT")
       THEN /\ auditLog' = Append(auditLog,
                  AuditRow("LOGOUT",
                           IF req[r].type = "external" THEN req[r].id ELSE NullId,
                           IF req[r].type = "internal" THEN req[r].id ELSE NullId))
            /\ Proceed(r, LogoutDone("ok", req[r].accessToken, req[r].paired,
                                     req[r].sessionId))
            /\ logoutDone' = Append(logoutDone, req[r].accessToken)
       ELSE /\ Proceed(r, LogoutDone("StoreError", req[r].accessToken, req[r].paired,
                                     req[r].sessionId))
            /\ UNCHANGED <<auditLog, logoutDone>>
    /\ UNCHANGED <<users, internalUsers, sessions, refreshTokens, passwordResetTokens,
                   now, issued, mailbox, verifyMailbox, resetDone, ops>>

\* ----------------------------------------------------------- requestReset
\* What a requestReset handler responds with for the email presented.
RequestResetDone(result, email) ==
    [op |-> "requestReset", result |-> result, email |-> email]

\* requestReset with a lookup that does not filter on deletedAt.
RequestResetStartAnyRow(r) ==
    /\ CanStart(r)
    /\ \E email \in Emails :
         \E user \in IF \E u \in DOMAIN users : users[u].email = email
                     THEN {u \in DOMAIN users : users[u].email = email} ELSE {NullId} :
         Proceed(r,
            IF user = NullId THEN RequestResetDone("ok", email)
            ELSE IF ~users[user].isActive
            THEN RequestResetDone("PrincipalInactive", email)
            ELSE [op |-> "requestReset", pc |-> "createToken", userId |-> user,
                  email |-> email])
    /\ UNCHANGED <<store, now, issued, mailbox, verifyMailbox, resetDone, logoutDone>>

\* PasswordService.requestReset: the user lookup and the activation check.
RequestResetStart(r) ==
    /\ CanStart(r)
    /\ \E email \in Emails :
         \E user \in FindExternalByEmail(email) :
         Proceed(r,
            IF user = NullId THEN RequestResetDone("ok", email)
            ELSE IF ~users[user].isActive
            THEN RequestResetDone("PrincipalInactive", email)
            ELSE [op |-> "requestReset", pc |-> "createToken", userId |-> user,
                  email |-> email])
    /\ UNCHANGED <<store, now, issued, mailbox, verifyMailbox, resetDone, logoutDone>>

\* prisma.passwordResetToken.create with the hash and a 30 minute expiry.
RequestResetCreateToken(r) ==
    /\ req[r].op = "requestReset" /\ req[r].pc = "createToken"
    /\ LET raw == Len(passwordResetTokens) + 1 IN
       /\ passwordResetTokens' = Append(passwordResetTokens,
              [userId |-> req[r].userId, tokenHash |-> Sha256(raw),
               expiresAt |-> now + RESET_TOKEN_TTL, usedAt |-> NullTime])
       /\ req' = [req EXCEPT ![r] = [op |-> "requestReset", pc |-> "sendEmail",
                                     token |-> raw, email |-> req[r].email]]
    /\ UNCHANGED <<users, internalUsers, sessions, refreshTokens, auditLog, now,
                   issued, mailbox, verifyMailbox, resp, pre, resetDone, logoutDone,
                   ops>>

\* sendPasswordResetEmail: delivery succeeds, or fails and the handler throws.
RequestResetSendEmail(r) ==
    /\ req[r].op = "requestReset" /\ req[r].pc = "sendEmail"
    /\ \E delivered \in BOOLEAN :
         IF delivered
         THEN /\ mailbox' = mailbox \cup {req[r].token}
              /\ Proceed(r, RequestResetDone("ok", req[r].email))
         ELSE /\ mailbox' = mailbox
              /\ Proceed(r, RequestResetDone("EmailFailed", req[r].email))
    /\ UNCHANGED <<store, now, issued, verifyMailbox, resetDone, logoutDone, ops>>

\* ---------------------------------------------------------- resetPassword
\* prisma.passwordResetToken.findUnique({ where: { tokenHash } }): row id or 0.
FindResetToken(tokenHash) ==
    IF \E i \in DOMAIN passwordResetTokens : passwordResetTokens[i].tokenHash = tokenHash
    THEN CHOOSE i \in DOMAIN passwordResetTokens :
            passwordResetTokens[i].tokenHash = tokenHash
    ELSE 0

\* The checks of resetPassword without the look at the expiry.
ResetCheckNoExpiry(token) ==
    LET id == FindResetToken(Sha256(token)) IN
    IF id = 0 \/ passwordResetTokens[id].usedAt # NullTime THEN "TokenInvalid"
    ELSE "pass"

\* The checks of resetPassword with the expiry looked at before the use mark.
ResetCheckExpiryFirst(token) ==
    LET id == FindResetToken(Sha256(token)) IN
    IF id = 0 THEN "TokenInvalid"
    ELSE IF passwordResetTokens[id].expiresAt < now THEN "TokenExpired"
    ELSE IF passwordResetTokens[id].usedAt # NullTime THEN "TokenInvalid"
    ELSE "pass"

\* The checks resetPassword makes on the row found for a presented value.
ResetCheck(token) ==
    LET id == FindResetToken(Sha256(token)) IN
    IF id = 0 \/ passwordResetTokens[id].usedAt # NullTime THEN "TokenInvalid"
    ELSE IF passwordResetTokens[id].expiresAt < now THEN "TokenExpired"
    ELSE "pass"

\* What a resetPassword handler responds with.
ResetDone(result, token, userId) ==
    [op |-> "resetPassword", result |-> result, token |-> token, userId |-> userId]

\* PasswordService.resetPassword: hash, findUnique and the validity checks.
ResetStart(r) ==
    /\ CanStart(r)
    /\ \E token \in mailbox \cup {GarbageToken}, newPassword \in Passwords :
         LET id == FindResetToken(Sha256(token)) IN
         Proceed(r,
            IF ResetCheck(token) # "pass"
            THEN ResetDone(ResetCheck(token), token, NullId)
            ELSE [op |-> "resetPassword", pc |-> "updateUser", token |-> token,
                  newPassword |-> newPassword, stored |-> id,
                  userId |-> passwordResetTokens[id].userId])
    /\ UNCHANGED <<store, now, issued, mailbox, verifyMailbox, resetDone, logoutDone>>

\* prisma.user.update({ where: { id }, data: { passwordHash } }).
ResetUpdateUser(r) ==
    /\ req[r].op = "resetPassword" /\ req[r].pc = "updateUser"
    /\ users' = [users EXCEPT ![req[r].userId].passwordHash =
                    hashPassword(req[r].newPassword)]
    /\ req' = [req EXCEPT ![r] = [op |-> "resetPassword", pc |-> "markUsed",
                                  token |-> req[r].token, stored |-> req[r].stored,
                                  userId |-> req[r].userId]]
    /\ UNCHANGED <<internalUsers, sessions, refreshTokens, passwordResetTokens,
                   auditLog, now, issued, mailbox, verifyMailbox, resp, pre, resetDone,
                   logoutDone, ops>>

\* prisma.passwordResetToken.update({ where: { id }, data: { usedAt } }).
ResetMarkUsed(r) ==
    /\ req[r].op = "resetPassword" /\ req[r].pc = "markUsed"
    /\ passwordResetTokens' =
          [passwordResetTokens EXCEPT ![req[r].stored].usedAt = now]
    /\ req' = [req EXCEPT ![r].pc = "revokeSessions"]
    /\ UNCHANGED <<users, internalUsers, sessions, refreshTokens, auditLog, now,
                   issued, mailbox, verifyMailbox, resp, pre, resetDone, logoutDone,
                   ops>>

\* prisma.session.updateMany({ where: { userId, revokedAt: null }, ... }) and the
\* response.
ResetRevokeSessions(r) ==
    /\ req[r].op = "resetPassword" /\ req[r].pc = "revokeSessions"
    /\ sessions' = [s \in DOMAIN sessions |->
          IF sessions[s].userId = req[r].userId /\ sessions[s].revokedAt = NullTime
          THEN [sessions[s] EXCEPT !.revokedAt = now]
          ELSE sessions[s]]
    /\ Proceed(r, ResetDone("ok", req[r].token, req[r].userId))
    /\ resetDone' = Append(resetDone, req[r].token)
    /\ UNCHANGED <<users, internalUsers, refreshTokens, passwordResetTokens, auditLog,
                   now, issued, mailbox, verifyMailbox, logoutDone, ops>>

\* ---------------------------------------------------------------- register
\* The unique index User(email, deletedAt): NULL markers never collide.
UserIndexViolated(table, email, deletedAt) ==
    /\ deletedAt # NullTime
    /\ \E u \in DOMAIN table : table[u].email = email /\ table[u].deletedAt = deletedAt

\* What a register handler responds with.
RegisterDone(result, email, id) ==
    [op |-> "register", result |-> result, email |-> email, id |-> id]

\* register with an existence check that does not filter on deletedAt.
RegisterStartAnyRow(r) ==
    /\ CanStart(r)
    /\ \E email \in Emails, password \in Passwords :
         Proceed(r,
            IF \E u \in DOMAIN users : users[u].email = email
            THEN RegisterDone("PrincipalExists", email, NullId)
            ELSE [op |-> "register", pc |-> "createUser", email |-> email,
                  password |-> password])
    /\ UNCHANGED <<store, now, issued, mailbox, verifyMailbox, resetDone, logoutDone>>

\* AuthService.register: the existence check.
RegisterStart(r) ==
    /\ CanStart(r)
    /\ \E email \in Emails, password \in Passwords :
         Proceed(r,
            IF FindExternalByEmail(email) # {NullId}
            THEN RegisterDone("PrincipalExists", email, NullId)
            ELSE [op |-> "register", pc |-> "createUser", email |-> email,
                  password |-> password])
    /\ UNCHANGED <<store, now, issued, mailbox, verifyMailbox, resetDone, logoutDone>>

\* hashPassword, prisma.user.create (inactive) and the verification token.
RegisterCreateUser(r) ==
    /\ req[r].op = "register" /\ req[r].pc = "createUser"
    /\ LET id == UserId(Cardinality(DOMAIN users) + 1) IN
       IF UserIndexViolated(users, req[r].email, NullTime)
       THEN /\ Proceed(r, RegisterDone("StoreError", req[r].email, NullId))
            /\ users' = users
       ELSE /\ users' = (id :> [email |-> req[r].email,
                                passwordHash |-> hashPassword(req[r].password),
                                isActive |-> FALSE, deletedAt |-> NullTime]) @@ users
            /\ req' = [req EXCEPT ![r] =
                   [op |-> "register", pc |-> "sendEmail", email |-> req[r].email,
                    id |-> id,
                    verificationToken |-> generateAccessToken(id, "none", "verify_email")]]
            /\ UNCHANGED <<resp, pre>>
    /\ UNCHANGED <<internalUsers, sessions, refreshTokens, passwordResetTokens, auditLog,
                   now, issued, mailbox, verifyMailbox, resetDone, logoutDone, ops>>

\* sendVerificationEmail with a failed delivery thrown to the caller.
RegisterSendEmailThrows(r) ==
    /\ req[r].op = "register" /\ req[r].pc = "sendEmail"
    /\ \E delivered \in BOOLEAN :
         IF delivered
         THEN /\ verifyMailbox' = verifyMailbox \cup {req[r].verificationToken}
              /\ req' = [req EXCEPT ![r].pc = "audit"]
              /\ UNCHANGED <<resp, pre>>
         ELSE /\ verifyMailbox' = verifyMailbox
              /\ Proceed(r, RegisterDone("EmailFailed", req[r].email, req[r].id))
    /\ UNCHANGED <<store, now, issued, mailbox, resetDone, logoutDone, ops>>

\* sendVerificationEmail: a failed delivery is logged, never thrown.
RegisterSendEmail(r) ==
    /\ req[r].op = "register" /\ req[r].pc = "sendEmail"
    /\ \E delivered \in BOOLEAN :
         verifyMailbox' = IF delivered THEN verifyMailbox \cup {req[r].verificationToken}
                          ELSE verifyMailbox
    /\ req' = [req EXCEPT ![r].pc = "audit"]
    /\ UNCHANGED <<store, now, issued, mailbox, resp, pre, resetDone, logoutDone, ops>>

\* The CREATE_ORG audit record and the response.
RegisterAudit(r) ==
    /\ req[r].op = "register" /\ req[r].pc = "audit"
    /\ IF AuditAccepts("CREATE_ORG")
       THEN /\ auditLog' = Append(auditLog, AuditRow("CREATE_ORG", req[r].id, NullId))
            /\ Proceed(r, RegisterDone("ok", req[r].email, req[r].id))
       ELSE /\ Proceed(r, RegisterDone("StoreError", req[r].email, req[r].id))
            /\ UNCHANGED auditLog
    /\ UNCHANGED <<users, internalUsers, sessions, refreshTokens, passwordResetTokens,
                   now, issued, mailbox, verifyMailbox, resetDone, logoutDone, ops>>

\* ------------------------------------------------------------- verifyEmail
\* What a verifyEmail handler responds with.
VerifyEmailDone(result, token, userId) ==
    [op |-> "verifyEmail", result |-> result, verificationToken |-> token,
     userId |-> userId]

\* verifyEmail without the look at the token's action tag.
VerifyEmailStartAnyAction(r) ==
    /\ CanStart(r)
    /\ \E token \in verifyMailbox \cup {p.accessToken : p \in issued} :
         Proceed(r,
            IF ~verifyAccessToken(token)
            THEN VerifyEmailDone("TokenInvalid", token, NullId)
            ELSE IF token.sub \notin DOMAIN users
            THEN VerifyEmailDone("PrincipalNotFound", token, token.sub)
            ELSE IF users[token.sub].isActive
            THEN VerifyEmailDone("AlreadyVerified", token, token.sub)
            ELSE [op |-> "verifyEmail", pc |-> "activate", verificationToken |-> token,
                  userId |-> token.sub])
    /\ UNCHANGED <<store, now, issued, mailbox, verifyMailbox, resetDone, logoutDone>>

\* AuthService.verifyEmail: verify the token, its action tag, find the user.
VerifyEmailStart(r) ==
    /\ CanStart(r)
    /\ \E token \in verifyMailbox \cup {p.accessToken : p \in issued} :
         Proceed(r,
            IF ~verifyAccessToken(token) \/ token.action # "verify_email"
            THEN VerifyEmailDone("TokenInvalid", token, NullId)
            ELSE IF token.sub \notin DOMAIN users
            THEN VerifyEmailDone("PrincipalNotFound", token, token.sub)
            ELSE IF users[token.sub].isActive
            THEN VerifyEmailDone("AlreadyVerified", token, token.sub)
            ELSE [op |-> "verifyEmail", pc |-> "activate", verificationToken |-> token,
                  userId |-> token.sub])
    /\ UNCHANGED <<store, now, issued, mailbox, verifyMailbox, resetDone, logoutDone>>

\* verifyEmail with an update that leaves the active flag as it was.
VerifyEmailActivateNothing(r) ==
    /\ req[r].op = "verifyEmail" /\ req[r].pc = "activate"
    /\ req' = [req EXCEPT ![r].pc = "audit"]
    /\ UNCHANGED <<store, now, issued, mailbox, verifyMailbox, resp, pre, resetDone,
                   logoutDone, ops>>

\* prisma.user.update({ where: { id }, data: { isActive: true } }).
VerifyEmailActivate(r) ==
    /\ req[r].op = "verifyEmail" /\ req[r].pc = "activate"
    /\ users' = [users EXCEPT ![req[r].userId].isActive = TRUE]
    /\ req' = [req EXCEPT ![r].pc = "audit"]
    /\ UNCHANGED <<internalUsers, sessions, refreshTokens, passwordResetTokens, auditLog,
                   now, issued, mailbox, verifyMailbox, resp, pre, resetDone, logoutDone,
                   ops>>

\* The UPDATE_ORG audit record and the response.
VerifyEmailAudit(r) ==
    /\ req[r].op = "verifyEmail" /\ req[r].pc = "audit"
    /\ IF AuditAccepts("UPDATE_ORG")
       THEN /\ auditLog' = Append(auditLog, AuditRow("UPDATE_ORG", req[r].userId, NullId))
            /\ Proceed(r, VerifyEmailDone("ok", req[r].verificationToken, req[r].userId))
       ELSE /\ Proceed(r, VerifyEmailDone("StoreError", req[r].verificationToken, req[r].userId))
            /\ UNCHANGED auditLog
    /\ UNCHANGED <<users, internalUsers, sessions, refreshTokens, passwordResetTokens,
                   now, issued, mailbox, verifyMailbox, resetDone, logoutDone, ops>>

\* -------------------------------------------------------------- soft delete
\* An external principal is soft-deleted: its row is kept and marked.
SoftDelete(r) ==
    /\ CanStart(r)
    /\ \E u \in DOMAIN users :
         /\ users[u].deletedAt = NullTime
         /\ ~UserIndexViolated(users, users[u].email, now)
         /\ users' = [users EXCEPT ![u].deletedAt = now]
         /\ Proceed(r, [op |-> "softDelete", result |-> "ok", id |-> u])
    /\ UNCHANGED <<internalUsers, sessions, refreshTokens, passwordResetTokens, auditLog,
                   now, issued, mailbox, verifyMailbox, resetDone, logoutDone>>

\* ------------------------------------------------------------- store faults
\* The handler is waiting on a call to the store (sending mail is not one). A
\* fault counts as one of the MaxOps events of a behaviour.
AwaitsStore(r) ==
    /\ InFlight(r) /\ req[r].pc \notin {"sendEmail", "hung"}
    /\ ops < MaxOps /\ ops' = ops + 1

\* The store call a handler awaits rejects: nothing is written by it, the handler
\* throws and the request ends in an error; what it wrote before stays (no call of
\* the handlers runs inside a transaction).
StoreFails(r) ==
    /\ AwaitsStore(r)
    /\ Proceed(r, [result |-> "StoreError"] @@ req[r])
    /\ UNCHANGED <<store, now, issued, mailbox, verifyMailbox, resetDone, logoutDone>>

\* The store call a handler awaits never settles: no call carries a timeout, so the
\* handler stays at its await.
StoreHangs(r) ==
    /\ AwaitsStore(r)
    /\ req' = [req EXCEPT ![r] = [pc |-> "hung"] @@ req[r]]
    /\ UNCHANGED <<store, now, issued, mailbox, verifyMailbox, resp, pre, resetDone,
                   logoutDone>>

\* A store call that never settles, never cut off.
StoreTimeoutNever(r) ==
    /\ FALSE
    /\ UNCHANGED vars

\* The bounded timeout of the store client cuts a call that has not settled off:
\* the handler throws and the request ends in an infrastructure failure.
StoreTimeout(r) ==
    /\ req[r].op # "idle" /\ req[r].pc = "hung"
    /\ Proceed(r, [result |-> "InfrastructureTimeout"] @@ req[r])
    /\ UNCHANGED <<store, now, issued, mailbox, verifyMailbox, resetDone, logoutDone,
                   ops>>

\* -------------------------------------------------------------------- Next
Next ==
    \/ Tick
    \/ \E r \in Requests : LoginStart(r)
    \/ \E r \in Requests : LoginFindExternal(r)
    \/ \E r \in Requests : LoginCreateSession(r)
    \/ \E r \in Requests : LoginCreateRefreshToken(r)
    \/ \E r \in Requests : LoginAudit(r)
    \/ \E r \in Requests : RefreshStart(r)
    \/ \E r \in Requests : RefreshCreateRefreshToken(r)
    \/ \E r \in Requests : RefreshRevoke(r)
    \/ \E r \in Requests : RefreshAudit(r)
    \/ \E r \in Requests : LogoutStart(r)
    \/ \E r \in Requests : LogoutRevokeSession(r)
    \/ \E r \in Requests : LogoutRevokeTokens(r)
    \/ \E r \in Requests : LogoutAudit(r)
    \/ \E r \in Requests : RequestResetStart(r)
    \/ \E r \in Requests : RequestResetCreateToken(r)
    \/ \E r \in Requests : RequestResetSendEmail(r)
    \/ \E r \in Requests : ResetStart(r)
    \/ \E r \in Requests : ResetUpdateUser(r)
    \/ \E r \in Requests : ResetMarkUsed(r)
    \/ \E r \in Requests : ResetRevokeSessions(r)
    \/ \E r \in Requests : RegisterStart(r)
    \/ \E r \in Requests : RegisterCreateUser(r)
    \/ \E r \in Requests : RegisterSendEmail(r)
    \/ \E r \in Requests : RegisterAudit(r)
    \/ \E r \in Requests : VerifyEmailStart(r)
    \/ \E r \in Requests : VerifyEmailActivate(r)
    \/ \E r \in Requests : VerifyEmailAudit(r)
    \/ \E r \in Requests : SoftDelete(r)

Spec == Init /\ [][Next]_vars

\* One request at a time: a request starts only when none is in flight, so a
\* single handler serves them all.
SeqNext ==
    \/ Tick
    \/ LoginStart("r1")
    \/ LoginFindExternal("r1")
    \/ LoginCreateSession("r1")
    \/ LoginCreateRefreshToken("r1")
    \/ LoginAudit("r1")
    \/ RefreshStart("r1")
    \/ RefreshCreateRefreshToken("r1")
    \/ RefreshRevoke("r1")
    \/ RefreshAudit("r1")
    \/ LogoutStart("r1")
    \/ LogoutRevokeSession("r1")
    \/ LogoutRevokeTokens("r1")
    \/ LogoutAudit("r1")
    \/ RequestResetStart("r1")
    \/ RequestResetCreateToken("r1")
    \/ RequestResetSendEmail("r1")
    \/ ResetStart("r1")
    \/ ResetUpdateUser("r1")
    \/ ResetMarkUsed("r1")
    \/ ResetRevokeSessions("r1")
    \/ RegisterStart("r1")
    \/ RegisterCreateUser("r1")
    \/ RegisterSendEmail("r1")
    \/ RegisterAudit("r1")
    \/ VerifyEmailStart("r1")
    \/ VerifyEmailActivate("r1")
    \/ VerifyEmailAudit("r1")
    \/ SoftDelete("r1")

SeqSpec == Init /\ [][SeqNext]_vars

\* One request at a time, the seeded external principal having no password.
NullHashSpec == NullHashInit /\ [][SeqNext]_vars

\* One request at a time over a store whose calls may reject or never settle; the
\* clock stands still (no fault depends on an expiry), and a behaviour has at most
\* MaxFaultOps requests and faults.
FaultNext ==
    \/ ops < MaxFaultOps /\ LoginStart("r1")
    \/ LoginFindExternal("r1")
    \/ LoginCreateSession("r1")
    \/ LoginCreateRefreshToken("r1")
    \/ LoginAudit("r1")
    \/ ops < MaxFaultOps /\ RefreshStart("r1")
    \/ RefreshCreateRefreshToken("r1")
    \/ RefreshRevoke("r1")
    \/ RefreshAudit("r1")
    \/ ops < MaxFaultOps /\ LogoutStart("r1")
    \/ LogoutRevokeSession("r1")
    \/ LogoutRevokeTokens("r1")
    \/ LogoutAudit("r1")
    \/ ops < MaxFaultOps /\ RequestResetStart("r1")
    \/ RequestResetCreateToken("r1")
    \/ RequestResetSendEmail("r1")
    \/ ops < MaxFaultOps /\ ResetStart("r1")
    \/ ResetUpdateUser("r1")
    \/ ResetMarkUsed("r1")
    \/ ResetRevokeSessions("r1")
    \/ ops < MaxFaultOps /\ RegisterStart("r1")
    \/ RegisterCreateUser("r1")
    \/ RegisterSendEmail("r1")
    \/ RegisterAudit("r1")
    \/ ops < MaxFaultOps /\ VerifyEmailStart("r1")
    \/ VerifyEmailActivate("r1")
    \/ VerifyEmailAudit("r1")
    \/ ops < MaxFaultOps /\ SoftDelete("r1")
    \/ ops < MaxFaultOps /\ StoreFails("r1")
    \/ ops < MaxFaultOps /\ StoreHangs("r1")
    \/ StoreTimeout("r1")

\* The step a handler takes once the call it awaits has settled or was cut off.
Continue(r) ==
    \/ LoginFindExternal(r) \/ LoginCreateSession(r) \/ LoginCreateRefreshToken(r)
    \/ LoginAudit(r)
    \/ RefreshCreateRefreshToken(r) \/ RefreshRevoke(r) \/ RefreshAudit(r)
    \/ LogoutRevokeSession(r) \/ LogoutRevokeTokens(r) \/ LogoutAudit(r)
    \/ RequestResetCreateToken(r) \/ RequestResetSendEmail(r)
    \/ ResetUpdateUser(r) \/ ResetMarkUsed(r) \/ ResetRevokeSessions(r)
    \/ RegisterCreateUser(r) \/ RegisterSendEmail(r) \/ RegisterAudit(r)
    \/ VerifyEmailActivate(r) \/ VerifyEmailAudit(r)
    \/ StoreFails(r) \/ StoreTimeout(r)

\* The event loop runs a handler's continuation once its awaited call has settled,
\* and the timer of a call that has not settled fires.
FaultSpec == Init /\ [][FaultNext]_vars /\ WF_vars(Continue("r1"))

\* ------------------------------------------------------------------ claims
\* A refresh-token row is active: neither revoked nor expired (what refresh accepts).
ActiveRefreshToken(i) ==
    /\ refreshTokens[i].revokedAt = NullTime
    /\ ~(refreshTokens[i].expiresAt < now)

\* The principal a refresh-token or session row belongs to.
OwnerOf(row) == IF row.userId # NullId THEN row.userId ELSE row.internalUserId

\* A refresh handler that has inserted its replacement row.
HasMinted(r) == req[r].op = "refresh" /\ req[r].pc \in {"revoke", "audit"}

\* The last response is that of a request that started alone, and nothing has
\* started and no time has passed since.
RanAlone == Quiescent /\ pre # NoStore

\* C1: two refresh requests that present the same raw value never both get a
\* replacement: one presented token never yields two descendants.
C1_OneDescendant ==
    \A a, b \in Requests :
        (a # b /\ HasMinted(a) /\ HasMinted(b))
            => req[a].storedToken # req[b].storedToken

\* C2: with one request at a time, a refresh that presents an issued token which
\* is neither revoked nor expired succeeds and hands a new pair to the client.
C2_RotationSucceeds ==
    (resp.op = "refresh" /\ resp.newRefreshToken # 0)
        => /\ resp.result = "ok"
           /\ \E p \in issued : p.refreshToken = resp.newRefreshToken

\* C3: when no request is in flight, each session has at most one refresh token
\* that is neither revoked nor expired.
C3_OneActivePerSession ==
    Quiescent =>
        \A s \in DOMAIN sessions :
            Cardinality({i \in DOMAIN refreshTokens :
                            refreshTokens[i].sessionId = s /\ ActiveRefreshToken(i)}) <= 1

\* C4: in no state, intermediate ones included, are the token a refresh presented
\* and the replacement minted for it both active.
C4_NeverBothActive ==
    \A r \in Requests :
        HasMinted(r) =>
            ~(/\ ActiveRefreshToken(req[r].storedToken)
              /\ ActiveRefreshToken(FindRefreshToken(Sha256(req[r].newRefreshToken))))

\* C5: once logout has succeeded with the access token issued together with
\* refresh token R, refresh(R) is rejected with TokenInvalid.
C5_LogoutRevokesPairedToken ==
    (resp.op = "logout" /\ resp.result = "ok")
        => RefreshCheck(resp.paired) = "TokenInvalid"

\* C6: the subject refresh writes into an access token decodes, in logout, to
\* the principal of the refreshed token, so that logout finds that principal's
\* active session.
C6_RefreshSubjectDecodes ==
    \A r \in Requests :
        (HasMinted(r) /\ sessions[req[r].sessionId].revokedAt = NullTime)
            => /\ LogoutId(req[r].accessToken.sub) = req[r].userId
               /\ LogoutFindSession(LogoutId(req[r].accessToken.sub),
                                    req[r].accessToken.type) # 0

\* How often resetPassword has succeeded with a raw token.
ResetCount(token) == Cardinality({i \in DOMAIN resetDone : resetDone[i] = token})

\* C7: with one request at a time, resetPassword succeeds at most once per token,
\* every later attempt with that token fails with TokenInvalid (also when the
\* token has expired meanwhile), and a successful resetPassword leaves every
\* session of the principal revoked.
C7_ResetSingleUse ==
    /\ \A i \in DOMAIN resetDone : ResetCount(resetDone[i]) = 1
    /\ (resp.op = "resetPassword" /\ resp.result # "ok" /\ ResetCount(resp.token) > 0)
          => resp.result = "TokenInvalid"
    /\ (RanAlone /\ resp.op = "resetPassword" /\ resp.result = "ok")
          => /\ Len(sessions) = Len(pre[3])
             /\ \A s \in DOMAIN sessions :
                   sessions[s].userId = resp.userId => sessions[s].revokedAt # NullTime

\* A used and expired token is presented again, for a principal who had a session.
C7_Witness ==
    /\ resp.op = "resetPassword" /\ resp.result = "TokenInvalid"
    /\ ResetCount(resp.token) = 1
    /\ passwordResetTokens[FindResetToken(Sha256(resp.token))].expiresAt < now
    /\ \E s \in DOMAIN sessions :
          /\ sessions[s].revokedAt # NullTime
          /\ sessions[s].userId =
                passwordResetTokens[FindResetToken(Sha256(resp.token))].userId

\* C8: of two concurrent resetPassword calls with the same token at most one
\* succeeds.
C8_AtMostOneResetSucceeds ==
    \A t \in mailbox : ResetCount(t) <= 1

\* C9: after a successful resetPassword, no refresh token issued to that
\* principal before the reset passes refresh's checks.
C9_ResetKillsRefreshTokens ==
    (RanAlone /\ resp.op = "resetPassword" /\ resp.result = "ok")
        => \A p \in issued :
              LET id == FindRefreshToken(Sha256(p.refreshToken)) IN
              refreshTokens[id].userId = resp.userId
                  => RefreshCheck(p.refreshToken) # "pass"

\* C10: a successful login adds exactly one session, active and owned by the
\* resolved principal, and exactly one refresh token, active and bound to that
\* session, returns the pair to the client, and leaves every row that existed
\* before as it was.
C10_LoginCreatesOneSession ==
    (RanAlone /\ resp.op = "login" /\ resp.result = "ok")
        => LET s == Len(sessions)
               t == Len(refreshTokens)
           IN /\ s = Len(pre[3]) + 1 /\ SubSeq(sessions, 1, s - 1) = pre[3]
              /\ sessions[s].revokedAt = NullTime
              /\ OwnerOf(sessions[s]) = resp.id
              /\ (sessions[s].userId # NullId) = (resp.userType = "external")
              /\ (sessions[s].userId = NullId) # (sessions[s].internalUserId = NullId)
              /\ t = Len(pre[4]) + 1 /\ SubSeq(refreshTokens, 1, t - 1) = pre[4]
              /\ refreshTokens[t].sessionId = s
              /\ refreshTokens[t].tokenHash = Sha256(resp.refreshToken)
              /\ ActiveRefreshToken(t)
              /\ OwnerOf(refreshTokens[t]) = resp.id
              /\ (refreshTokens[t].userId # NullId) = (resp.userType = "external")
              /\ [accessToken |-> resp.accessToken,
                  refreshToken |-> resp.refreshToken] \in issued
              /\ verifyAccessToken(resp.accessToken)
              /\ <<users, internalUsers, passwordResetTokens>> = <<pre[1], pre[2], pre[5]>>

\* A login succeeds while the principal already has an active session and token.
C10_Witness ==
    /\ RanAlone /\ resp.op = "login" /\ resp.result = "ok"
    /\ \E s \in DOMAIN pre[3] :
          /\ pre[3][s].revokedAt = NullTime
          /\ OwnerOf(pre[3][s]) = resp.id
    /\ \E t \in DOMAIN pre[4] : pre[4][t].revokedAt = NullTime

\* The internal principals of a snapshot that have an email.
InternalsOf(snap, email) == {i \in DOMAIN snap[2] : snap[2][i].email = email}

\* The password hashes login compares with for an email: the internal principal's
\* if there is one, else the live external principal's.
HashesOf(snap, email) ==
    IF InternalsOf(snap, email) # {}
    THEN {snap[2][i].passwordHash : i \in InternalsOf(snap, email)}
    ELSE {snap[1][u].passwordHash : u \in LiveUsers(snap[1], email)}

\* C11: login answers InvalidCredentials exactly when no principal has the email
\* or the password does not verify, whether or not the external principal is
\* active, and a login that fails leaves the store as it found it.
C11_LoginFailure ==
    (RanAlone /\ resp.op = "login")
        => LET hashes == HashesOf(pre, resp.email)
               bad == \A h \in hashes : ~verifyPassword(resp.password, h)
           IN /\ bad <=> (resp.result = "InvalidCredentials")
              /\ resp.result # "ok" => snapshot = pre

\* A wrong password is presented for an external principal that is inactive.
C11_Witness ==
    /\ RanAlone /\ resp.op = "login" /\ resp.result = "InvalidCredentials"
    /\ InternalsOf(pre, resp.email) = {}
    /\ \E u \in LiveUsers(pre[1], resp.email) : ~pre[1][u].isActive

C13_RegisterExists ==
    (RanAlone /\ resp.op = "register")
        => IF LiveUsers(pre[1], resp.email) # {}
           THEN resp.result = "PrincipalExists" /\ snapshot = pre
           ELSE /\ resp.result = "ok"
                /\ resp.id \notin DOMAIN pre[1]
                /\ DOMAIN users = DOMAIN pre[1] \cup {resp.id}
                /\ \A u \in DOMAIN pre[1] : users[u] = pre[1][u]
                /\ users[resp.id].email = resp.email
                /\ ~users[resp.id].isActive
                /\ users[resp.id].deletedAt = NullTime
                /\ \E password \in Passwords :
                      users[resp.id].passwordHash = hashPassword(password)

\* register succeeds for the email of a principal that was soft-deleted.
C13_Witness ==
    /\ RanAlone /\ resp.op = "register" /\ resp.result = "ok"
    /\ \E u \in DOMAIN pre[1] :
          pre[1][u].email = resp.email /\ pre[1][u].deletedAt # NullTime

\* C14: at most one external principal per email is not soft-deleted.
C14_UniqueLiveEmail ==
    \A email \in Emails : Cardinality(LiveUsers(users, email)) <= 1

\* C15: refresh answers TokenInvalid for an absent or revoked token (also when
\* it is expired), TokenExpired for a stored, non-revoked token past its expiry,
\* and a refresh that fails mints nothing and changes nothing.
C15_RefreshFailure ==
    (RanAlone /\ resp.op = "refresh")
        => LET rows == {i \in DOMAIN pre[4] :
                           pre[4][i].tokenHash = Sha256(resp.refreshToken)}
           IN /\ (\A i \in rows : pre[4][i].revokedAt # NullTime)
                    => resp.result = "TokenInvalid"
              /\ (\E i \in rows : pre[4][i].revokedAt = NullTime
                                    /\ pre[4][i].expiresAt < now)
                    => resp.result = "TokenExpired"
              /\ resp.result # "ok"
                    => resp.newRefreshToken = 0 /\ snapshot = pre

\* How often logout has returned for an access token.
LogoutCount(token) == Cardinality({i \in DOMAIN logoutDone : logoutDone[i] = token})

\* C16: a logout repeated with the same access token, right after a logout of
\* that principal, answers with the no-active-session marker and changes nothing.
C16_LogoutIdempotent ==
    (/\ RanAlone /\ resp.op = "logout" /\ resp.result \in {"ok", "NoActiveSession"}
     /\ LogoutCount(resp.accessToken) >= 2
     /\ Len(pre[6]) > 0
     /\ pre[6][Len(pre[6])].action = "LOGOUT"
     /\ LogoutId(resp.accessToken.sub)
           \in {pre[6][Len(pre[6])].userId, pre[6][Len(pre[6])].internalUserId})
        => resp.result = "NoActiveSession" /\ snapshot = pre

\* C17: verifyEmail succeeds only for an inactive principal, and then sets its
\* active flag and appends one audit record; with a valid token of a principal
\* that is already active it answers AlreadyVerified and changes nothing.
C17_VerifyEmail ==
    (RanAlone /\ resp.op = "verifyEmail")
        => /\ resp.result = "ok"
                => /\ ~pre[1][resp.userId].isActive
                   /\ users = [pre[1] EXCEPT ![resp.userId].isActive = TRUE]
                   /\ auditLog = Append(pre[6], AuditRow("UPDATE_ORG", resp.userId, NullId))
                   /\ <<internalUsers, sessions, refreshTokens, passwordResetTokens>>
                        = <<pre[2], pre[3], pre[4], pre[5]>>
           /\ (/\ verifyAccessToken(resp.verificationToken) /\ resp.verificationToken.action = "verify_email"
               /\ resp.verificationToken.sub \in DOMAIN pre[1])
                => IF pre[1][resp.verificationToken.sub].isActive
                   THEN resp.result = "AlreadyVerified" /\ snapshot = pre
                   ELSE resp.result = "ok" /\ resp.userId = resp.verificationToken.sub

\* The token that activated a principal is presented again.
C17_Witness ==
    /\ RanAlone /\ resp.op = "verifyEmail" /\ resp.result = "AlreadyVerified"
    /\ \E i \in DOMAIN auditLog :
          auditLog[i].action = "UPDATE_ORG" /\ auditLog[i].userId = resp.userId

\* C18: requestReset for an email that no external principal has, or only
\* soft-deleted ones, returns without error, stores no reset token and sends no
\* email.
C18_ResetRequestUnknownEmail ==
    (RanAlone /\ resp.op = "requestReset" /\ LiveUsers(pre[1], resp.email) = {})
        => resp.result = "ok" /\ snapshot = pre

\* requestReset for the email of a principal that was soft-deleted.
C18_Witness ==
    /\ RanAlone /\ resp.op = "requestReset" /\ resp.result = "ok"
    /\ LiveUsers(pre[1], resp.email) = {}
    /\ \E u \in DOMAIN pre[1] : pre[1][u].email = resp.email

\* C19: what requestReset answers does not depend on the principal: with the
\* mail delivered, it is the answer given for an email nobody has.
C19_ResetRequestHidesPrincipal ==
    (resp.op = "requestReset" /\ resp.result # "EmailFailed")
        => resp = RequestResetDone("ok", resp.email)

\* C20: register, login, logout, refresh, verifyEmail and resetPassword append
\* exactly one audit record when they succeed and none when they fail.
C20_OneAuditPerTransition ==
    (/\ RanAlone
     /\ resp.op \in {"register", "login", "logout", "refresh", "verifyEmail",
                     "resetPassword"})
        => IF resp.result = "ok"
           THEN Len(auditLog) = Len(pre[6]) + 1
                /\ SubSeq(auditLog, 1, Len(pre[6])) = pre[6]
           ELSE auditLog = pre[6]

\* The row a raw refresh-token value hashes to.
RowOf(raw) == FindRefreshToken(Sha256(raw))

\* C21: a refresh whose store call fails, or is cut off, after the presented token
\* was looked up leaves either the complete rotation (replacement row inserted and
\* presented row revoked) or no change at all.
C21_RotationAllOrNothing ==
    (/\ RanAlone /\ resp.op = "refresh"
     /\ resp.result \in {"StoreError", "InfrastructureTimeout"})
        => \/ refreshTokens = pre[4]
           \/ /\ Len(refreshTokens) = Len(pre[4]) + 1
              /\ SubSeq(refreshTokens, 1, Len(pre[4]))
                    = [pre[4] EXCEPT ![RowOf(resp.refreshToken)].revokedAt = now]

\* C22: when a store call of a logout or of a resetPassword fails, none of the
\* writes the operation made before is visible.
C22_WritesCommitTogether ==
    (/\ RanAlone /\ resp.op \in {"logout", "resetPassword"}
     /\ resp.result \in {"StoreError", "InfrastructureTimeout"})
        => <<users, sessions, refreshTokens, passwordResetTokens>>
              = <<pre[1], pre[3], pre[4], pre[5]>>

\* C23: register for an email that no live principal has persists the new
\* inactive principal and answers ok whether or not the verification email was
\* delivered; the only mail it may add is that principal's verification token.
C23_RegisterSurvivesMailFailure ==
    (RanAlone /\ resp.op = "register" /\ LiveUsers(pre[1], resp.email) = {})
        => /\ resp.result = "ok"
           /\ resp.id \in DOMAIN users \ DOMAIN pre[1]
           /\ users[resp.id].email = resp.email
           /\ ~users[resp.id].isActive
           /\ pre[8] \subseteq verifyMailbox
           /\ \A t \in verifyMailbox \ pre[8] :
                 t.sub = resp.id /\ t.action = "verify_email"

\* register answers ok although the verification email was not delivered.
C23_Witness ==
    /\ RanAlone /\ resp.op = "register" /\ resp.result = "ok"
    /\ verifyMailbox = pre[8]
    /\ resp.id \in DOMAIN users /\ ~users[resp.id].isActive

\* C24: every session has exactly one of its two owner columns set; every refresh
\* token has exactly one owner column set, the same as its session's; and the
\* replacement a rotation mints is bound to the session and the principal of the
\* presented token.
C24_OwnersConsistent ==
    /\ \A s \in DOMAIN sessions :
          (sessions[s].userId = NullId) # (sessions[s].internalUserId = NullId)
    /\ \A t \in DOMAIN refreshTokens :
          /\ (refreshTokens[t].userId = NullId) # (refreshTokens[t].internalUserId = NullId)
          /\ refreshTokens[t].sessionId \in DOMAIN sessions
          /\ refreshTokens[t].userId = sessions[refreshTokens[t].sessionId].userId
          /\ refreshTokens[t].internalUserId
                = sessions[refreshTokens[t].sessionId].internalUserId
    /\ \A r \in Requests :
          HasMinted(r) =>
              LET old == refreshTokens[req[r].storedToken]
                  new == refreshTokens[RowOf(req[r].newRefreshToken)]
              IN /\ new.sessionId = old.sessionId
                 /\ new.userId = old.userId
                 /\ new.internalUserId = old.internalUserId

\* A rotation has minted the replacement of an internal principal's token while a
\* later session of an external principal exists.
C24_Witness ==
    \E r \in Requests :
        /\ HasMinted(r) /\ req[r].userType = "internal"
        /\ \E s \in DOMAIN sessions :
              s > req[r].sessionId /\ sessions[s].userId # NullId

\* C25: no step deletes a session, a refresh token or an audit record, none
\* clears a revocation, and no audit record changes after it was appended.
C25_NothingDeletedOrCleared ==
    [][/\ Len(sessions') >= Len(sessions)
       /\ \A s \in DOMAIN sessions :
             sessions[s].revokedAt # NullTime => sessions'[s].revokedAt # NullTime
       /\ Len(refreshTokens') >= Len(refreshTokens)
       /\ \A t \in DOMAIN refreshTokens :
             refreshTokens[t].revokedAt # NullTime
                 => refreshTokens'[t].revokedAt # NullTime
       /\ Len(auditLog') >= Len(auditLog)
       /\ SubSeq(auditLog', 1, Len(auditLog)) = auditLog]_vars

\* A session and a refresh token are still revoked, and a LOGOUT record is still
\* in place, after a later login was recorded.
C25_Witness ==
    /\ \E s \in DOMAIN sessions : sessions[s].revokedAt # NullTime
    /\ \E t \in DOMAIN refreshTokens : refreshTokens[t].revokedAt # NullTime
    /\ \E i, j \in DOMAIN auditLog :
          i < j /\ auditLog[i].action = "LOGOUT" /\ auditLog[j].action = "LOGIN"

\* C26: whether logout rejects the access token presented depends on the token's
\* signature and expiry alone: an unexpired token of the service is accepted also
\* after the subject's sessions were revoked, and a token with a bad signature or
\* past its expiry is answered TokenInvalid.
C26_VerificationIgnoresStore ==
    (RanAlone /\ resp.op = "logout")
        => (resp.result = "TokenInvalid"
              <=> ~(resp.accessToken.sig = "privateKey" /\ resp.accessToken.exp > now))

\* An unexpired token passes verification after every session of its subject was
\* revoked.
C26_Witness ==
    /\ RanAlone /\ resp.op = "logout" /\ resp.result = "NoActiveSession"
    /\ \E s \in DOMAIN sessions :
          /\ sessions[s].revokedAt # NullTime
          /\ LogoutId(resp.accessToken.sub) = OwnerOf(sessions[s])

ActiveSessionsOf(snap, id) ==
    {s \in DOMAIN snap[3] : snap[3][s].revokedAt = NullTime /\ OwnerOf(snap[3][s]) = id}

\* C28: a logout that finds an active session revokes the most recently created
\* non-revoked session of the token's principal and every non-revoked refresh
\* token of that session, and leaves every other session and every refresh token
\* of another session as it was.
C28_LogoutRevokesNewestSession ==
    (RanAlone /\ resp.op = "logout" /\ resp.result = "ok")
        => LET mine == ActiveSessionsOf(pre, LogoutId(resp.accessToken.sub))
               s == resp.sessionId
           IN /\ s \in mine /\ \A t \in mine : t <= s
              /\ sessions = [pre[3] EXCEPT ![s].revokedAt = now]
              /\ refreshTokens =
                    [t \in DOMAIN pre[4] |->
                        IF pre[4][t].sessionId = s /\ pre[4][t].revokedAt = NullTime
                        THEN [pre[4][t] EXCEPT !.revokedAt = now]
                        ELSE pre[4][t]]

\* A logout succeeds for a principal that had two active sessions, each with an
\* active refresh token.
C28_Witness ==
    /\ RanAlone /\ resp.op = "logout" /\ resp.result = "ok"
    /\ Cardinality(ActiveSessionsOf(pre, LogoutId(resp.accessToken.sub))) >= 2
    /\ \E t \in DOMAIN refreshTokens :
          refreshTokens[t].sessionId # resp.sessionId
             /\ refreshTokens[t].revokedAt = NullTime

\* C29: verifyEmail with a validly signed, unexpired token whose action tag is not
\* verify_email (an access token minted by login) fails and changes nothing.
C29_VerifyEmailNeedsActionTag ==
    (/\ RanAlone /\ resp.op = "verifyEmail"
     /\ resp.verificationToken.sig = "privateKey" /\ resp.verificationToken.exp > now
     /\ resp.verificationToken.action # "verify_email")
        => resp.result = "TokenInvalid" /\ snapshot = pre

\* An unexpired access token of a login is presented to verifyEmail while an
\* inactive principal exists.
C29_Witness ==
    /\ RanAlone /\ resp.op = "verifyEmail" /\ resp.result = "TokenInvalid"
    /\ resp.verificationToken.sig = "privateKey" /\ resp.verificationToken.exp > now
    /\ resp.verificationToken.action = "none"
    /\ \E u \in DOMAIN users : ~users[u].isActive

\* C30: when an internal principal has the email, login resolves it and never the
\* external principal with the same email: the password is checked against the
\* internal principal only, and the session and the tokens of a success are tagged
\* internal.
C30_InternalFirst ==
    (RanAlone /\ resp.op = "login" /\ InternalsOf(pre, resp.email) # {})
        => \A i \in InternalsOf(pre, resp.email) :
              IF verifyPassword(resp.password, pre[2][i].passwordHash)
              THEN /\ resp.result = "ok"
                   /\ resp.userType = "internal" /\ resp.id = i
                   /\ sessions[Len(sessions)].internalUserId = i
                   /\ sessions[Len(sessions)].userId = NullId
                   /\ refreshTokens[Len(refreshTokens)].internalUserId = i
                   /\ refreshTokens[Len(refreshTokens)].userId = NullId
                   /\ resp.accessToken.type = "internal"
                   /\ resp.accessToken.sub = "internal:" \o i
              ELSE resp.result = "InvalidCredentials" /\ snapshot = pre

\* The password of a live external principal is presented for an email that an
\* internal principal has too, with another password.
C30_Witness ==
    /\ RanAlone /\ resp.op = "login" /\ resp.result = "InvalidCredentials"
    /\ InternalsOf(pre, resp.email) # {}
    /\ \E u \in LiveUsers(pre[1], resp.email) :
          verifyPassword(resp.password, pre[1][u].passwordHash)

\* C31: login for a principal whose stored password hash is NULL fails with
\* InvalidCredentials for any password and leaves the store as it found it.
C31_NullHashLoginInvalidCredentials ==
    (RanAlone /\ resp.op = "login" /\ NullHash \in HashesOf(pre, resp.email))
        => resp.result = "InvalidCredentials" /\ snapshot = pre

\* C32: resetPassword answers TokenInvalid for a token with no stored row and
\* TokenExpired for an unused token past its expiry, and a resetPassword that
\* fails leaves the password hashes, the reset tokens and the sessions unchanged.
C32_ResetFailure ==
    (RanAlone /\ resp.op = "resetPassword")
        => LET rows == {i \in DOMAIN pre[5] : pre[5][i].tokenHash = Sha256(resp.token)}
           IN /\ rows = {} => resp.result = "TokenInvalid"
              /\ (\E i \in rows : pre[5][i].usedAt = NullTime /\ pre[5][i].expiresAt < now)
                    => resp.result = "TokenExpired"
              /\ resp.result # "ok"
                    => <<users, passwordResetTokens, sessions>> = <<pre[1], pre[5], pre[3]>>

\* An unused, delivered token is presented after its expiry, for a principal that
\* has an active session.
C32_Witness ==
    /\ RanAlone /\ resp.op = "resetPassword" /\ resp.result = "TokenExpired"
    /\ \E s \in DOMAIN sessions :
          /\ sessions[s].revokedAt = NullTime
          /\ sessions[s].userId =
                passwordResetTokens[FindResetToken(Sha256(resp.token))].userId

\* C33: a requestReset whose email could not be dispatched fails towards the
\* caller and leaves no reset token behind: the store is as it was.
C33_FailedDispatchLeavesNoToken ==
    (RanAlone /\ resp.op = "requestReset" /\ resp.result = "EmailFailed")
        => passwordResetTokens = pre[5]

\* C34: no refresh fails at its audit step after it has revoked the presented
\* token: a refresh that passed validation hands the replacement pair out.
C34_RefreshAuditAccepted ==
    ~(/\ resp.op = "refresh" /\ resp.result = "StoreError"
      /\ refreshTokens[RowOf(resp.refreshToken)].revokedAt # NullTime
      /\ RowOf(resp.newRefreshToken) # 0)

\* A refresh-token row that no login handed out: the replacement of a rotation.
IsReplacement(t) ==
    \A p \in issued : refreshTokens[t].tokenHash # Sha256(p.refreshToken)

\* C35: once a logout and a refresh on the same session have both completed (no
\* request in flight, no password reset having revoked sessions), the replacement
\* the refresh inserted into the revoked session is not active.
C35_LogoutCascadeCoversReplacement ==
    (Quiescent /\ \A i \in DOMAIN passwordResetTokens :
                      passwordResetTokens[i].usedAt = NullTime)
        => \A t \in DOMAIN refreshTokens :
              (IsReplacement(t)
                  /\ sessions[refreshTokens[t].sessionId].revokedAt # NullTime)
                  => ~ActiveRefreshToken(t)

\* C36: once a login and a concurrent resetPassword of the same principal have
\* both completed, the session of a login that was authenticated with the
\* password the reset replaced is revoked.
C36_ResetRevokesOldPasswordSession ==
    (/\ Quiescent /\ resp.op = "login" /\ resp.result = "ok"
     /\ resp.userType = "external"
     /\ ~verifyPassword(resp.password, users[resp.id].passwordHash))
        => sessions[refreshTokens[RowOf(resp.refreshToken)].sessionId].revokedAt
              # NullTime

\* The principal a reset token was issued to.
ResetTokenUser(token) == passwordResetTokens[FindResetToken(Sha256(token))].userId

\* C37: after a successful resetPassword of a principal, no reset token issued
\* to that principal earlier than the token just used completes another reset
\* (reset tokens are numbered in the order of their issue).
C37_ResetRetiresOlderTokens ==
    \A i, j \in DOMAIN resetDone :
        (i < j /\ ResetTokenUser(resetDone[i]) = ResetTokenUser(resetDone[j]))
            => resetDone[j] > resetDone[i]

\* The principal named by the subject of an access token.
SubjectPrincipal(sub) ==
    CHOOSE i \in PrincipalIds :
        sub \in {i, "user:" \o i, "internal:" \o i, "external:" \o i}

\* The access tokens the service has minted: handed out by login, mailed by
\* register, or held by a handler in flight.
MintedTokens ==
    {p.accessToken : p \in issued} \cup verifyMailbox
       \cup {req[r].accessToken : r \in {q \in Requests : "accessToken" \in DOMAIN req[q]}}
       \cup {req[r].verificationToken :
                r \in {q \in Requests : "verificationToken" \in DOMAIN req[q]}}

\* C38: a logout changes sessions and refresh tokens of the principal named in
\* the subject of the token presented only, and the session logout's lookup finds
\* for any token the service minted belongs to the principal the token names.
C38_LogoutOwnPrincipalOnly ==
    /\ (RanAlone /\ resp.op = "logout" /\ resp.result = "ok")
          => /\ \A s \in DOMAIN pre[3] :
                   sessions[s] # pre[3][s]
                      => OwnerOf(sessions[s]) = SubjectPrincipal(resp.accessToken.sub)
             /\ \A t \in DOMAIN pre[4] :
                   refreshTokens[t] # pre[4][t]
                      => OwnerOf(refreshTokens[t]) = SubjectPrincipal(resp.accessToken.sub)
    /\ \A token \in MintedTokens :
          LET s == LogoutFindSession(LogoutId(token.sub), token.type) IN
          s # 0 => OwnerOf(sessions[s]) = SubjectPrincipal(token.sub)

\* A logout succeeds while another principal has an active session with an
\* active refresh token.
C38_Witness ==
    /\ RanAlone /\ resp.op = "logout" /\ resp.result = "ok"
    /\ \E t \in DOMAIN refreshTokens :
          /\ refreshTokens[t].revokedAt = NullTime
          /\ sessions[refreshTokens[t].sessionId].revokedAt = NullTime
          /\ OwnerOf(refreshTokens[t]) # SubjectPrincipal(resp.accessToken.sub)

\* C39: refresh mints no replacement for an external principal that is inactive
\* or soft-deleted at the time of the refresh.
C39_RefreshChecksPrincipal ==
    \A r \in Requests :
        (HasMinted(r) /\ req[r].userType = "external")
            => /\ users[req[r].userId].isActive
               /\ users[req[r].userId].deletedAt = NullTime

\* C40: a principal is activated at most once: of two concurrent verifyEmail
\* requests for it only one appends an activation audit record.
C40_OneActivation ==
    \A u \in DOMAIN users :
        Cardinality({i \in DOMAIN auditLog :
                        auditLog[i].action = "UPDATE_ORG" /\ auditLog[i].userId = u}) <= 1

====
